---- MODULE Spec2Model ----
(***************************************************************************)
(* Access-token lifecycle of mpesakit: TokenManager.get_token and          *)
(* AsyncTokenManager.get_token (mpesakit/auth/token_manager.py).           *)
(*                                                                         *)
(* Python values are tagged records: None is [t |-> "None"], an int is     *)
(* [t |-> "int", v |-> n], a str is [t |-> "str", s |-> <<chars>>] and a   *)
(* key missing from a dict is [t |-> "absent"].  A Python str is a         *)
(* sequence of one-character strings so that len() and int() are computed. *)
(***************************************************************************)
EXTENDS Integers, Sequences, FiniteSets, TLC

VARIABLES variant, access_token, now, calls, last, pair, http, op, conc

vars == <<variant, access_token, now, calls, last, pair, http, op, conc>>

(* ---------------------------- bounds ---------------------------------- *)
MaxTime == 3
MaxCalls == 3

(* ------------------------- program constants -------------------------- *)
DefaultExpiresIn == 3600
BadRequest == 400

(* --------------------------- Python values ---------------------------- *)
PyNone == [t |-> "None"]
Absent == [t |-> "absent"]
PyInt(n) == [t |-> "int", v |-> n]
PyStr(chars) == [t |-> "str", s |-> chars]

Digits == {"0", "1", "2", "3", "4", "5", "6", "7", "8", "9"}

DigitValue(c) ==
    CASE c = "0" -> 0 [] c = "1" -> 1 [] c = "2" -> 2 [] c = "3" -> 3
      [] c = "4" -> 4 [] c = "5" -> 5 [] c = "6" -> 6 [] c = "7" -> 7
      [] c = "8" -> 8 [] c = "9" -> 9

RECURSIVE DecimalValue(_)
DecimalValue(chars) ==
    IF chars = <<>> THEN 0
    ELSE 10 * DecimalValue(SubSeq(chars, 1, Len(chars) - 1))
         + DigitValue(chars[Len(chars)])

\* int(x) of line 70: an int is itself, a str is parsed as an optionally
\* signed run of decimal digits (ValueError otherwise), None is a TypeError.
py_int(x) ==
    CASE x.t = "int" -> [ok |-> TRUE, v |-> x.v]
      [] x.t = "str" ->
            LET neg == Len(x.s) > 0 /\ x.s[1] = "-"
                body == IF neg THEN Tail(x.s) ELSE x.s
            IN  IF Len(body) > 0 /\ \A i \in 1..Len(body) : body[i] \in Digits
                THEN [ok |-> TRUE,
                      v |-> IF neg THEN 0 - DecimalValue(body)
                                   ELSE DecimalValue(body)]
                ELSE [ok |-> FALSE, exc |-> "ValueError"]
      [] OTHER -> [ok |-> FALSE, exc |-> "TypeError"]

\* Truth value of a dict entry as `not token` of line 72 tests it.
truthy(x) ==
    CASE x.t = "str" -> Len(x.s) > 0
      [] x.t = "int" -> x.v # 0
      [] OTHER -> FALSE

(* ------------------- values the environment supplies ------------------ *)
Tok1 == PyStr(<<"t", "1">>)
Tok2 == PyStr(<<"t", "2">>)

\* Decoded bodies http_client.get may return: a dict whose access_token and
\* expires_in entries are each missing or hold a JSON value.
AccessTokenValues == {Absent, PyNone, PyStr(<<>>), Tok1, Tok2}
ExpiresInValues ==
    {Absent, PyNone, PyInt(0), PyInt(1),
     PyStr(<<>>), PyStr(<<"2">>), PyStr(<<"a">>)}
Bodies == [access_token : AccessTokenValues, expires_in : ExpiresInValues]

\* MpesaApiException(MpesaError(...)) as http_client.get may raise it.
ErrorCodes == {"SOME_CODE", "REQUEST_TIMEOUT"}
ErrorMessages == {PyNone, PyStr(<<>>), PyStr(<<"F">>)}
StatusCodes == {PyNone, PyInt(BadRequest), PyInt(403)}
TransportErrors ==
    [error_code : ErrorCodes, error_message : ErrorMessages,
     status_code : StatusCodes, raw_response : {PyNone}]
TransportExceptions ==
    {[type |-> "MpesaApiException", error |-> e, cause |-> PyNone] :
        e \in TransportErrors}

Outcomes ==
    {[kind |-> "ok", body |-> b] : b \in Bodies}
    \cup {[kind |-> "raise", exc |-> x] : x \in TransportExceptions}
NoOutcome == [kind |-> "none"]

(* ----------------------------- AccessToken ---------------------------- *)
AccessToken(token, creation_datetime, expiration_time) ==
    [t |-> "AccessToken", token |-> token,
     creation_datetime |-> creation_datetime,
     expiration_time |-> expiration_time]

\* AccessToken.is_expired(): now - creation_time >= validity_duration.
is_expired(tok, clock) ==
    clock - tok.creation_datetime >= tok.expiration_time

(* ------------------------ results of get_token ------------------------ *)
Return(value) == [kind |-> "return", value |-> value]
Raise(exc) == [kind |-> "raise", exc |-> exc]

\* The fixed message of line 62 and the one of line 76, by their first word.
InvalidCredentialsMessage == PyStr(<<"I", "n", "v", "a", "l", "i", "d">>)
NoAccessTokenMessage == PyStr(<<"N", "o">>)

InvalidCredentialsError ==
    [error_code |-> "AUTH_INVALID_CREDENTIALS",
     error_message |-> InvalidCredentialsMessage,
     status_code |-> PyInt(BadRequest),
     raw_response |-> PyNone]

TokenMissingError(response) ==
    [error_code |-> "TOKEN_MISSING",
     error_message |-> NoAccessTokenMessage,
     status_code |-> PyNone,
     raw_response |-> response]

(* ----------------------- TokenManager.get_token ----------------------- *)
\* The cache check with the negation of is_expired() lost.
TokenManager_cache_hit_expired(self_access_token, force_refresh, clock) ==
    /\ self_access_token # PyNone
    /\ is_expired(self_access_token, clock)
    /\ ~force_refresh

\* The cache check without `and not force_refresh`.
TokenManager_cache_hit_unforced(self_access_token, force_refresh, clock) ==
    /\ self_access_token # PyNone
    /\ ~is_expired(self_access_token, clock)

\* lines 42-46: the cache check of the fast path.
TokenManager_cache_hit(self_access_token, force_refresh, clock) ==
    /\ self_access_token # PyNone
    /\ ~is_expired(self_access_token, clock)
    /\ ~force_refresh

\* The except clause testing `error_message is None` only.
TokenManager_on_exception_none_only(e) ==
    IF /\ e.error.status_code = PyInt(BadRequest)
       /\ e.error.error_message = PyNone
    THEN Raise([type |-> "MpesaApiException",
                error |-> InvalidCredentialsError, cause |-> e])
    ELSE Raise(e)

\* lines 55-67: the except clause around http_client.get.
TokenManager_on_exception(e) ==
    IF /\ e.error.status_code = PyInt(BadRequest)
       /\ \/ e.error.error_message = PyNone
          \/ Len(e.error.error_message.s) = 0
    THEN Raise([type |-> "MpesaApiException",
                error |-> InvalidCredentialsError, cause |-> e])
    ELSE Raise(e)

\* line 70: response.get("expires_in", 3600).
TokenManager_expires_in_field(response) ==
    IF response.expires_in = Absent THEN PyInt(DefaultExpiresIn)
    ELSE response.expires_in

\* `if token is None` in place of `if not token`.
TokenManager_token_is_none(token) == token = PyNone

\* line 72: `if not token`.
TokenManager_token_missing(token) == ~truthy(token)

\* The cache write stamping the epoch instead of datetime.now().
TokenManager_new_access_token_epoch(token, clock, expires_in) ==
    AccessToken(token, 0, expires_in)

\* lines 82-86: the cache write.
TokenManager_new_access_token(token, clock, expires_in) ==
    AccessToken(token, clock, expires_in)

\* The handling of a decoded response with a second cache check before the
\* write: a token stored meanwhile and still valid is kept and returned.
TokenManager_on_response_keep_first(self_access_token, response, clock) ==
    LET token == IF response.access_token = Absent THEN PyNone
                 ELSE response.access_token
        expires_in == py_int(TokenManager_expires_in_field(response))
    IN  IF ~expires_in.ok
        THEN [access_token |-> self_access_token,
              result |-> Raise([type |-> expires_in.exc, cause |-> PyNone])]
        ELSE IF TokenManager_token_missing(token)
        THEN [access_token |-> self_access_token,
              result |-> Raise([type |-> "MpesaApiException",
                                error |-> TokenMissingError(response),
                                cause |-> PyNone])]
        ELSE IF /\ self_access_token # PyNone
                /\ ~is_expired(self_access_token, clock)
        THEN [access_token |-> self_access_token,
              result |-> Return(self_access_token.token)]
        ELSE LET fresh == TokenManager_new_access_token(token, clock,
                                                        expires_in.v)
             IN  [access_token |-> fresh, result |-> Return(fresh.token)]

\* lines 69-87: the handling of a decoded response.
TokenManager_on_response(self_access_token, response, clock) ==
    LET token == IF response.access_token = Absent THEN PyNone
                 ELSE response.access_token
        expires_in == py_int(TokenManager_expires_in_field(response))
    IN  IF ~expires_in.ok
        THEN [access_token |-> self_access_token,
              result |-> Raise([type |-> expires_in.exc, cause |-> PyNone])]
        ELSE IF TokenManager_token_missing(token)
        THEN [access_token |-> self_access_token,
              result |-> Raise([type |-> "MpesaApiException",
                                error |-> TokenMissingError(response),
                                cause |-> PyNone])]
        ELSE LET fresh == TokenManager_new_access_token(token, clock,
                                                        expires_in.v)
             IN  [access_token |-> fresh, result |-> Return(fresh.token)]

\* get_token dropping the cached token before a forced exchange, so that a
\* failed one leaves the cache empty.
TokenManager_get_token_clearing(self_access_token, force_refresh, clock, outcome) ==
    IF TokenManager_cache_hit(self_access_token, force_refresh, clock)
    THEN [access_token |-> self_access_token,
          result |-> Return(self_access_token.token),
          gets |-> 0]
    ELSE IF outcome.kind = "raise"
    THEN [access_token |-> IF force_refresh THEN PyNone
                           ELSE self_access_token,
          result |-> TokenManager_on_exception(outcome.exc),
          gets |-> 1]
    ELSE LET r == TokenManager_on_response(self_access_token, outcome.body,
                                           clock)
         IN  [access_token |-> r.access_token, result |-> r.result,
              gets |-> 1]

\* get_token calling http_client.get a second time when the first call raised.
TokenManager_get_token_retrying(self_access_token, force_refresh, clock, outcome) ==
    IF TokenManager_cache_hit(self_access_token, force_refresh, clock)
    THEN [access_token |-> self_access_token,
          result |-> Return(self_access_token.token),
          gets |-> 0]
    ELSE IF outcome.kind = "raise"
    THEN [access_token |-> self_access_token,
          result |-> TokenManager_on_exception(outcome.exc),
          gets |-> 2]
    ELSE LET r == TokenManager_on_response(self_access_token, outcome.body,
                                           clock)
         IN  [access_token |-> r.access_token, result |-> r.result,
              gets |-> 1]

\* lines 32-87.  clock is what datetime.now() reads during the call and
\* outcome what http_client.get does when it is called.
TokenManager_get_token(self_access_token, force_refresh, clock, outcome) ==
    IF TokenManager_cache_hit(self_access_token, force_refresh, clock)
    THEN [access_token |-> self_access_token,
          result |-> Return(self_access_token.token),
          gets |-> 0]
    ELSE IF outcome.kind = "raise"
    THEN [access_token |-> self_access_token,
          result |-> TokenManager_on_exception(outcome.exc),
          gets |-> 1]
    ELSE LET r == TokenManager_on_response(self_access_token, outcome.body,
                                           clock)
         IN  [access_token |-> r.access_token, result |-> r.result,
              gets |-> 1]

(* --------------------- AsyncTokenManager.get_token -------------------- *)
\* The cache check with a one-second safety margin before expiry.
AsyncTokenManager_cache_hit_margin(self_access_token, force_refresh, clock) ==
    /\ self_access_token # PyNone
    /\ ~is_expired(self_access_token, clock + 1)
    /\ ~force_refresh

\* lines 119-123.
AsyncTokenManager_cache_hit(self_access_token, force_refresh, clock) ==
    /\ self_access_token # PyNone
    /\ ~is_expired(self_access_token, clock)
    /\ ~force_refresh

\* The except clause narrowing every 400, whatever its message.
AsyncTokenManager_on_exception_any_400(e) ==
    IF e.error.status_code = PyInt(BadRequest)
    THEN Raise([type |-> "MpesaApiException",
                error |-> InvalidCredentialsError, cause |-> e])
    ELSE Raise(e)

\* lines 133-145.
AsyncTokenManager_on_exception(e) ==
    IF /\ e.error.status_code = PyInt(BadRequest)
       /\ \/ e.error.error_message = PyNone
          \/ Len(e.error.error_message.s) = 0
    THEN Raise([type |-> "MpesaApiException",
                error |-> InvalidCredentialsError, cause |-> e])
    ELSE Raise(e)

\* response.get("expires_in", 0): the default lost.
AsyncTokenManager_expires_in_no_default(response) ==
    IF response.expires_in = Absent THEN PyInt(0)
    ELSE response.expires_in

\* line 148: response.get("expires_in", 3600).
AsyncTokenManager_expires_in_field(response) ==
    IF response.expires_in = Absent THEN PyInt(DefaultExpiresIn)
    ELSE response.expires_in

\* line 150: `if not token`.
AsyncTokenManager_token_missing(token) == ~truthy(token)

\* lines 160-164: the cache write.
AsyncTokenManager_new_access_token(token, clock, expires_in) ==
    AccessToken(token, clock, expires_in)

\* The handling of a decoded response that keeps, and returns, a token
\* another task stored while this one was suspended, if it is still valid.
AsyncTokenManager_on_response_keep_first(self_access_token, response, clock) ==
    LET token == IF response.access_token = Absent THEN PyNone
                 ELSE response.access_token
        expires_in == py_int(AsyncTokenManager_expires_in_field(response))
    IN  IF ~expires_in.ok
        THEN [access_token |-> self_access_token,
              result |-> Raise([type |-> expires_in.exc, cause |-> PyNone])]
        ELSE IF AsyncTokenManager_token_missing(token)
        THEN [access_token |-> self_access_token,
              result |-> Raise([type |-> "MpesaApiException",
                                error |-> TokenMissingError(response),
                                cause |-> PyNone])]
        ELSE IF /\ self_access_token # PyNone
                /\ ~is_expired(self_access_token, clock)
        THEN [access_token |-> self_access_token,
              result |-> Return(self_access_token.token)]
        ELSE LET fresh == AsyncTokenManager_new_access_token(token, clock,
                                                             expires_in.v)
             IN  [access_token |-> fresh, result |-> Return(fresh.token)]

\* lines 147-165.
AsyncTokenManager_on_response(self_access_token, response, clock) ==
    LET token == IF response.access_token = Absent THEN PyNone
                 ELSE response.access_token
        expires_in == py_int(AsyncTokenManager_expires_in_field(response))
    IN  IF ~expires_in.ok
        THEN [access_token |-> self_access_token,
              result |-> Raise([type |-> expires_in.exc, cause |-> PyNone])]
        ELSE IF AsyncTokenManager_token_missing(token)
        THEN [access_token |-> self_access_token,
              result |-> Raise([type |-> "MpesaApiException",
                                error |-> TokenMissingError(response),
                                cause |-> PyNone])]
        ELSE LET fresh == AsyncTokenManager_new_access_token(token, clock,
                                                             expires_in.v)
             IN  [access_token |-> fresh, result |-> Return(fresh.token)]

\* lines 109-165; the await of line 132 is where outcome arrives.
AsyncTokenManager_get_token(self_access_token, force_refresh, clock, outcome) ==
    IF AsyncTokenManager_cache_hit(self_access_token, force_refresh, clock)
    THEN [access_token |-> self_access_token,
          result |-> Return(self_access_token.token),
          gets |-> 0]
    ELSE IF outcome.kind = "raise"
    THEN [access_token |-> self_access_token,
          result |-> AsyncTokenManager_on_exception(outcome.exc),
          gets |-> 1]
    ELSE LET r == AsyncTokenManager_on_response(self_access_token,
                                                outcome.body, clock)
         IN  [access_token |-> r.access_token, result |-> r.result,
              gets |-> 1]

(* ------------------------------ the system ---------------------------- *)
\* The two managers run side by side, the transport's request in progress,
\* the product operation last run and the callers sharing one manager: each
\* is idle outside its own specification.
NoPair == [op |-> "idle"]
NoHttp == [pc |-> "idle"]
NoOp == [op |-> "idle"]
NoConc == [op |-> "idle"]

NoCall ==
    [op |-> "init", force |-> FALSE, at |-> 0, pre |-> PyNone,
     outcome |-> NoOutcome, result |-> [kind |-> "none"], gets |-> 0]

\* One manager, freshly constructed (line 21 / line 97: no cached token).
Init ==
    /\ variant \in {"TokenManager", "AsyncTokenManager"}
    /\ access_token = PyNone
    /\ now = 0
    /\ calls = 0
    /\ last = NoCall
    /\ pair = NoPair
    /\ http = NoHttp
    /\ op = NoOp
    /\ conc = NoConc

\* The record of a finished call: its inputs, the cache it found, what the
\* transport did (nothing when it was not called) and what the caller got.
Called(r, force_refresh, outcome) ==
    /\ access_token' = r.access_token
    /\ calls' = calls + r.gets
    /\ last' = [op |-> "get_token", force |-> force_refresh, at |-> now,
                pre |-> access_token,
                outcome |-> IF r.gets = 0 THEN NoOutcome ELSE outcome,
                result |-> r.result, gets |-> r.gets]
    /\ UNCHANGED <<variant, now, pair, http, op, conc>>

\* TokenManager.get_token(force_refresh).  The transport is consulted only
\* when the call gets as far as http_client.get.
GetToken ==
    /\ variant = "TokenManager"
    /\ calls < MaxCalls
    /\ \E force_refresh \in BOOLEAN :
          IF TokenManager_cache_hit(access_token, force_refresh, now)
          THEN Called(TokenManager_get_token(access_token, force_refresh, now,
                                             NoOutcome),
                      force_refresh, NoOutcome)
          ELSE \E outcome \in Outcomes :
                  Called(TokenManager_get_token(access_token, force_refresh,
                                                now, outcome),
                         force_refresh, outcome)

\* AsyncTokenManager.get_token(force_refresh), likewise.
AsyncGetToken ==
    /\ variant = "AsyncTokenManager"
    /\ calls < MaxCalls
    /\ \E force_refresh \in BOOLEAN :
          IF AsyncTokenManager_cache_hit(access_token, force_refresh, now)
          THEN Called(AsyncTokenManager_get_token(access_token, force_refresh,
                                                  now, NoOutcome),
                      force_refresh, NoOutcome)
          ELSE \E outcome \in Outcomes :
                  Called(AsyncTokenManager_get_token(access_token,
                              force_refresh, now, outcome),
                         force_refresh, outcome)

\* Time passes between calls.
Tick ==
    /\ now < MaxTime
    /\ now' = now + 1
    /\ UNCHANGED <<variant, access_token, calls, last, pair, http, op, conc>>

Next == GetToken \/ AsyncGetToken \/ Tick

Spec == Init /\ [][Next]_vars

TypeOK ==
    /\ variant \in {"TokenManager", "AsyncTokenManager"}
    /\ now \in 0..MaxTime
    /\ calls \in 0..MaxCalls
    /\ access_token # PyNone =>
          /\ access_token.t = "AccessToken"
          /\ access_token.creation_datetime \in 0..MaxTime

(* ------------- the two managers side by side (same inputs) ------------ *)
\* One manager of each class, freshly constructed, given the same calls.
Side(cache, ncalls, result, gets) ==
    [cache |-> cache, calls |-> ncalls, result |-> result, gets |-> gets]

PairInit ==
    /\ variant = "pair"
    /\ access_token = PyNone
    /\ now = 0
    /\ calls = 0
    /\ last = NoCall
    /\ pair = [op |-> "init", force |-> FALSE, outcome |-> NoOutcome,
               sync |-> Side(PyNone, 0, [kind |-> "none"], 0),
               async |-> Side(PyNone, 0, [kind |-> "none"], 0)]
    /\ http = NoHttp
    /\ op = NoOp
    /\ conc = NoConc

\* What each manager makes of one call: TokenManager.get_token (lines
\* 32-87) and AsyncTokenManager.get_token (lines 109-165) with the same
\* force_refresh, the same clock reading and the same transport outcome.
PairCalled(force_refresh, outcome) ==
    LET rs == TokenManager_get_token(pair.sync.cache, force_refresh, now,
                                     outcome)
        ra == AsyncTokenManager_get_token(pair.async.cache, force_refresh,
                                          now, outcome)
    IN  pair' = [op |-> "get_token", force |-> force_refresh,
                 outcome |-> outcome,
                 sync |-> Side(rs.access_token, pair.sync.calls + rs.gets,
                               rs.result, rs.gets),
                 async |-> Side(ra.access_token, pair.async.calls + ra.gets,
                                ra.result, ra.gets)]

PairGetToken ==
    /\ variant = "pair"
    /\ pair.sync.calls < MaxCalls /\ pair.async.calls < MaxCalls
    /\ \E force_refresh \in BOOLEAN :
          IF /\ TokenManager_cache_hit(pair.sync.cache, force_refresh, now)
             /\ AsyncTokenManager_cache_hit(pair.async.cache, force_refresh,
                                            now)
          THEN PairCalled(force_refresh, NoOutcome)
          ELSE \E outcome \in Outcomes : PairCalled(force_refresh, outcome)
    /\ UNCHANGED <<variant, access_token, now, calls, last, http, op, conc>>

PairNext == PairGetToken \/ Tick

PairSpec == PairInit /\ [][PairNext]_vars

(* ------------------ callers sharing one manager ---------------------- *)
\* Threads calling one TokenManager, or tasks calling one AsyncTokenManager.
\* A thread can be preempted between any two reads or writes of
\* self._access_token; a task gives up control only at `await
\* self.http_client.get(...)` (line 132).
NumCallers == 2
Callers == 1 .. NumCallers

\* Exchange calls and clock ticks looked at with callers interleaved.
MaxExchanges == 2
MaxConcTime == 1

\* What the exchange endpoint answers in this specification.
ConcOutcomes ==
    {[kind |-> "ok", body |-> b] :
        b \in {[access_token |-> Tok1, expires_in |-> PyInt(1)],
               [access_token |-> Tok2, expires_in |-> PyStr(<<"2">>)],
               [access_token |-> PyNone, expires_in |-> PyInt(1)]}}
    \cup {[kind |-> "raise",
           exc |-> [type |-> "MpesaApiException",
                    error |-> [error_code |-> "REQUEST_TIMEOUT",
                               error_message |-> PyStr(<<"F">>),
                               status_code |-> PyNone,
                               raw_response |-> PyNone],
                    cause |-> PyNone]]}

\* A caller: where it is in get_token, its force_refresh argument, when its
\* exchange call went out (sent), its local variable token (line 69 / 147)
\* once its response is handled, and what its last call gave it.
Caller(pc, force_refresh, result) ==
    [pc |-> pc, force |-> force_refresh, sent |-> 0, token |-> PyNone,
     result |-> result]

InFlight(of) == Cardinality({c \in Callers : of[c].pc = "inflight"})

ConcInit ==
    /\ variant \in {"TokenManager", "AsyncTokenManager"}
    /\ access_token = PyNone
    /\ now = 0
    /\ calls = 0
    /\ last = NoCall
    /\ pair = NoPair
    /\ http = NoHttp
    /\ op = NoOp
    /\ conc = [op |-> "shared",
               of |-> [c \in Callers |-> Caller("idle", FALSE,
                                                [kind |-> "none"])],
               log |-> <<>>, issued |-> 0, peak |-> 0]

\* Caller c moves to pc with the given result; the exchange log and the
\* largest number of exchange calls in flight at once follow.
ConcMove(c, pc, force_refresh, result, log, issued) ==
    LET of == [conc.of EXCEPT ![c] =
                  [Caller(pc, force_refresh, result) EXCEPT
                      !.sent = IF pc = "inflight" THEN now ELSE 0,
                      !.token = IF pc = "return_new"
                                THEN log[Len(log)].body.access_token
                                ELSE PyNone]]
    IN  conc' = [conc EXCEPT !.of = of, !.log = log, !.issued = issued,
                             !.peak = IF InFlight(of) > conc.peak
                                      THEN InFlight(of) ELSE conc.peak]

\* The log of successful exchanges: the body received and when the response
\* was handled.
ConcLogged(result, body) ==
    IF result.kind = "return"
    THEN Append(conc.log, [body |-> body, at |-> now])
    ELSE conc.log

\* When the provider issued the token the cache holds: for a token just
\* stored, some time while its exchange call was in flight.
ConcIssued(result, issued) ==
    IF result.kind = "return" THEN issued ELSE conc.issued

\* line 43: a thread enters get_token and reads self._access_token.
ThreadCall(c) ==
    /\ variant = "TokenManager"
    /\ conc.of[c].pc = "idle"
    /\ \E force_refresh \in BOOLEAN :
          ConcMove(c, IF access_token # PyNone THEN "is_expired" ELSE "get",
                   force_refresh, [kind |-> "none"], conc.log, conc.issued)
    /\ UNCHANGED <<variant, access_token, now, calls, last, pair, http, op>>

\* lines 44-45: it reads self._access_token again for is_expired().
ThreadIsExpired(c) ==
    /\ variant = "TokenManager"
    /\ conc.of[c].pc = "is_expired"
    /\ ConcMove(c, IF TokenManager_cache_hit(access_token, conc.of[c].force,
                                             now)
                   THEN "return_cached" ELSE "get",
                conc.of[c].force, [kind |-> "none"], conc.log, conc.issued)
    /\ UNCHANGED <<variant, access_token, now, calls, last, pair, http, op>>

\* line 47: it reads self._access_token a third time and returns.
ThreadReturnCached(c) ==
    /\ variant = "TokenManager"
    /\ conc.of[c].pc = "return_cached"
    /\ ConcMove(c, "idle", FALSE, Return(access_token.token),
                conc.log, conc.issued)
    /\ UNCHANGED <<variant, access_token, now, calls, last, pair, http, op>>

\* line 54: it issues the exchange call, whatever the other callers do.
ThreadGet(c) ==
    /\ variant = "TokenManager"
    /\ conc.of[c].pc = "get"
    /\ calls < MaxExchanges
    /\ calls' = calls + 1
    /\ ConcMove(c, "inflight", conc.of[c].force, [kind |-> "none"],
                conc.log, conc.issued)
    /\ UNCHANGED <<variant, access_token, now, last, pair, http, op>>

\* lines 55-86: the exchange call ends; on success the cache is written.
ThreadResponse(c) ==
    /\ variant = "TokenManager"
    /\ conc.of[c].pc = "inflight"
    /\ \E outcome \in ConcOutcomes, issued \in conc.of[c].sent .. now :
          LET r == IF outcome.kind = "raise"
                   THEN [access_token |-> access_token,
                         result |-> TokenManager_on_exception(outcome.exc)]
                   ELSE TokenManager_on_response(access_token, outcome.body,
                                                 now)
          IN  /\ access_token' = r.access_token
              /\ IF r.result.kind = "return"
                 THEN ConcMove(c, "return_new", conc.of[c].force,
                               [kind |-> "none"],
                               ConcLogged(r.result, outcome.body),
                          ConcIssued(r.result, issued))
                 ELSE ConcMove(c, "idle", FALSE, r.result,
                               conc.log, conc.issued)
    /\ UNCHANGED <<variant, now, calls, last, pair, http, op>>

\* line 87: it reads self._access_token once more and returns.
ThreadReturnNew(c) ==
    /\ variant = "TokenManager"
    /\ conc.of[c].pc = "return_new"
    /\ ConcMove(c, "idle", FALSE, Return(access_token.token),
                conc.log, conc.issued)
    /\ UNCHANGED <<variant, access_token, now, calls, last, pair, http, op>>

\* lines 119-132: a task runs from its start to the await of the exchange
\* call, or to the return of the fast path.
TaskCall(c) ==
    /\ variant = "AsyncTokenManager"
    /\ conc.of[c].pc = "idle"
    /\ \E force_refresh \in BOOLEAN :
          IF AsyncTokenManager_cache_hit(access_token, force_refresh, now)
          THEN /\ ConcMove(c, "idle", FALSE,
                           Return(access_token.token), conc.log, conc.issued)
               /\ calls' = calls
          ELSE /\ calls < MaxExchanges
               /\ calls' = calls + 1
               /\ ConcMove(c, "inflight", force_refresh, [kind |-> "none"],
                           conc.log, conc.issued)
    /\ UNCHANGED <<variant, access_token, now, last, pair, http, op>>

\* lines 133-165: the task resumes and runs to the end of get_token.
TaskResponse(c) ==
    /\ variant = "AsyncTokenManager"
    /\ conc.of[c].pc = "inflight"
    /\ \E outcome \in ConcOutcomes, issued \in conc.of[c].sent .. now :
          LET r == IF outcome.kind = "raise"
                   THEN [access_token |-> access_token,
                         result |->
                             AsyncTokenManager_on_exception(outcome.exc)]
                   ELSE AsyncTokenManager_on_response(access_token,
                                                      outcome.body, now)
          IN  /\ access_token' = r.access_token
              /\ ConcMove(c, "idle", FALSE, r.result,
                          ConcLogged(r.result, outcome.body),
                          ConcIssued(r.result, issued))
    /\ UNCHANGED <<variant, now, calls, last, pair, http, op>>

\* Time passes between any two steps of the callers.
ConcTick ==
    /\ conc.op = "shared"
    /\ now < MaxConcTime
    /\ now' = now + 1
    /\ UNCHANGED <<variant, access_token, calls, last, pair, http, op, conc>>

ConcNext ==
    \/ \E c \in Callers :
          \/ ThreadCall(c)
          \/ ThreadIsExpired(c)
          \/ ThreadReturnCached(c)
          \/ ThreadGet(c)
          \/ ThreadResponse(c)
          \/ ThreadReturnNew(c)
          \/ TaskCall(c)
          \/ TaskResponse(c)
    \/ ConcTick

ConcSpec == ConcInit /\ [][ConcNext]_vars

(* --------------------------- MpesaHttpClient -------------------------- *)
\* stop_after_attempt(3) of the two @retry decorators (lines 129 and 180).
StopAfterAttempt == 3

\* What one raw attempt (httpx.Client.get / post) may raise: an
\* httpx.TimeoutException, an httpx.ConnectError, or an httpx.RequestError
\* that is neither (here a ReadError). str gives its message.
HttpxError(class, str) == [kind |-> "exception", class |-> class, str |-> str]
HttpxErrors ==
    {HttpxError("ReadTimeout", PyStr(<<"r", "t">>)),
     HttpxError("ConnectError", PyStr(<<"c", "e">>)),
     HttpxError("ReadError", PyStr(<<"r", "e">>))}

isinstance_TimeoutException(exception) ==
    exception.class \in {"ReadTimeout", "ConnectTimeout"}
isinstance_ConnectError(exception) == exception.class = "ConnectError"

\* A response body: its text, and the value json.loads makes of that text
\* (a dict with or without an errorMessage entry, another JSON value, or
\* NotJson when the text does not parse).
NotJson == [t |-> "ValueError"]
JsonDict(errorMessage) == [t |-> "dict", errorMessage |-> errorMessage]
JsonList == [t |-> "list"]
HttpBody(text, json) == [text |-> PyStr(text), json |-> json]
HttpBodies ==
    {HttpBody(<<"{", "}">>, JsonDict(Absent)),
     HttpBody(<<"{", "E", "}">>, JsonDict(PyStr(<<"E">>))),
     HttpBody(<<"[", "]">>, JsonList),
     HttpBody(<<" ", "x", " ">>, NotJson),
     HttpBody(<<>>, NotJson)}
HttpStatuses == {199, 200, 299, 300, 400, 500}
HttpResponses ==
    {[kind |-> "response", status_code |-> st, body |-> b] :
        st \in HttpStatuses, b \in HttpBodies}

AttemptOutcomes == HttpxErrors \cup HttpResponses

\* str.strip() on the characters of a text.
RECURSIVE lstrip(_)
lstrip(chars) ==
    IF chars # <<>> /\ Head(chars) = " " THEN lstrip(Tail(chars)) ELSE chars

RECURSIVE rstrip(_)
rstrip(chars) ==
    IF chars # <<>> /\ chars[Len(chars)] = " "
    THEN rstrip(SubSeq(chars, 1, Len(chars) - 1)) ELSE chars

py_strip(text) == PyStr(rstrip(lstrip(text.s)))

\* Python's `x or y`.
py_or(x, y) == IF truthy(x) THEN x ELSE y

\* httpx.Response.is_success.
is_success(response) ==
    200 <= response.status_code /\ response.status_code <= 299

MpesaError(error_code, error_message, status_code, raw_response) ==
    [error_code |-> error_code, error_message |-> error_message,
     status_code |-> status_code, raw_response |-> raw_response]

MpesaApiException(error, cause) ==
    [type |-> "MpesaApiException", error |-> error, cause |-> cause]

\* lines 27-48.
handle_request_error(response) ==
    IF is_success(response) THEN Return(PyNone)
    ELSE LET response_data ==
                 IF response.body.json = NotJson
                 THEN JsonDict(py_or(py_strip(response.body.text),
                                     PyStr(<<>>)))
                 ELSE response.body.json
         IN  IF response_data.t # "dict"
             THEN Raise([type |-> "AttributeError", cause |-> PyNone])
             ELSE Raise(MpesaApiException(
                     MpesaError("HTTP_" \o ToString(response.status_code),
                                IF response_data.errorMessage = Absent
                                THEN PyStr(<<>>)
                                ELSE response_data.errorMessage,
                                PyInt(response.status_code),
                                response_data),
                     PyNone))

\* lines 51-77: the hook run when the attempts are used up; outcome is the
\* exception of the last attempt (PyNone if the retry state had none).
handle_retry_exception(outcome) ==
    IF outcome # PyNone
    THEN IF isinstance_TimeoutException(outcome)
         THEN Raise(MpesaApiException(
                 MpesaError("REQUEST_TIMEOUT", outcome.str, PyNone, PyNone),
                 outcome))
         ELSE IF isinstance_ConnectError(outcome)
         THEN Raise(MpesaApiException(
                 MpesaError("CONNECTION_ERROR", outcome.str, PyNone, PyNone),
                 outcome))
         ELSE Raise(MpesaApiException(
                 MpesaError("REQUEST_FAILED", outcome.str, PyNone, PyNone),
                 outcome))
    ELSE Raise(MpesaApiException(
            MpesaError("REQUEST_FAILED", PyStr(<<"u", "n", "k">>), PyNone,
                       PyNone),
            PyNone))

\* The retry condition retrying on every httpx.RequestError.
retry_enabled_any(enabled, exception) == enabled

\* lines 80-98.
retry_enabled(enabled, exception) ==
    IF ~enabled THEN FALSE
    ELSE \/ isinstance_TimeoutException(exception)
         \/ isinstance_ConnectError(exception)

\* The stop condition letting one more attempt through.
stop_after_attempt_late(attempt_number) == attempt_number > StopAfterAttempt

\* stop=stop_after_attempt(3), lines 129 and 180.
stop_after_attempt(attempt_number) == attempt_number >= StopAfterAttempt

\* The @retry decorators of _raw_post and _raw_get (lines 126-132, 177-183):
\* what follows an attempt. A response is returned to the caller; an
\* exception the retry condition rejects is raised again as it is; one it
\* accepts leads to another attempt after the wait, or to
\* retry_error_callback once the stop condition holds.
Retrying(attempt_number, outcome) ==
    IF outcome.kind = "response" THEN "return"
    ELSE IF ~retry_enabled(TRUE, outcome) THEN "reraise"
    ELSE IF stop_after_attempt(attempt_number) THEN "callback"
    ELSE "sleep"

\* response.json() of lines 172 and 229 replaced by response.text.
MpesaHttpClient_post_text(outcome, decision) ==
    IF decision = "callback" THEN handle_retry_exception(outcome)
    ELSE IF decision = "reraise"
    THEN Raise(MpesaApiException(
            MpesaError("REQUEST_FAILED", outcome.str, PyNone, PyNone),
            outcome))
    ELSE LET checked == handle_request_error(outcome)
         IN  IF checked.kind = "raise" THEN checked
             ELSE Return(outcome.body.text)

\* lines 148-175: post, once _raw_post has ended with the given outcome of
\* its last attempt.
MpesaHttpClient_post(outcome, decision) ==
    IF decision = "callback" THEN handle_retry_exception(outcome)
    ELSE IF decision = "reraise"
    THEN Raise(MpesaApiException(
            MpesaError("REQUEST_FAILED", outcome.str, PyNone, PyNone),
            outcome))
    ELSE LET checked == handle_request_error(outcome)
         IN  IF checked.kind = "raise" THEN checked
             ELSE IF outcome.body.json = NotJson
             THEN Raise(MpesaApiException(
                     MpesaError("REQUEST_FAILED", PyStr(<<"j", "s">>),
                                PyInt(outcome.status_code),
                                outcome.body.text),
                     NotJson))
             ELSE Return(outcome.body.json)

\* lines 205-235: get, once _raw_get has ended.
MpesaHttpClient_get(outcome, decision) ==
    IF decision = "callback" THEN handle_retry_exception(outcome)
    ELSE IF decision = "reraise"
    THEN Raise(MpesaApiException(
            MpesaError("REQUEST_FAILED", outcome.str, PyNone, PyNone),
            outcome))
    ELSE LET checked == handle_request_error(outcome)
         IN  IF checked.kind = "raise" THEN checked
             ELSE IF outcome.body.json = NotJson
             THEN Raise(MpesaApiException(
                     MpesaError("REQUEST_FAILED", PyStr(<<"j", "s">>),
                                PyInt(outcome.status_code),
                                outcome.body.text),
                     NotJson))
             ELSE Return(outcome.body.json)

\* One request of the client: the method called, the outcomes of its raw
\* attempts so far and, once it has ended, what the caller got.
HttpRequestState(pc, method, attempts, result) ==
    [pc |-> pc, method |-> method, attempts |-> attempts, result |-> result]

HttpInit ==
    /\ variant = "MpesaHttpClient"
    /\ access_token = PyNone
    /\ now = 0
    /\ calls = 0
    /\ last = NoCall
    /\ pair = NoPair
    /\ http = HttpRequestState("new", "none", <<>>, [kind |-> "none"])
    /\ op = NoOp
    /\ conc = NoConc

\* A caller calls get or post (the client serves one request at a time
\* here).
HttpRequest ==
    /\ http.pc \in {"new", "done"}
    /\ \E method \in {"get", "post"} :
          http' = HttpRequestState("raw", method, <<>>, [kind |-> "none"])
    /\ UNCHANGED <<variant, access_token, now, calls, last, pair, op, conc>>

\* One raw attempt ends; the request goes on to the next attempt or ends.
HttpAttempt ==
    /\ http.pc = "raw"
    /\ \E outcome \in AttemptOutcomes :
          LET attempts == Append(http.attempts, outcome)
              decision == Retrying(Len(attempts), outcome)
          IN  IF decision = "sleep"
              THEN http' = HttpRequestState("raw", http.method, attempts,
                                            [kind |-> "none"])
              ELSE http' = HttpRequestState(
                               "done", http.method, attempts,
                               IF http.method = "get"
                               THEN MpesaHttpClient_get(outcome, decision)
                               ELSE MpesaHttpClient_post(outcome, decision))
    /\ UNCHANGED <<variant, access_token, now, calls, last, pair, op, conc>>

HttpNext == HttpRequest \/ HttpAttempt

HttpSpec == HttpInit /\ [][HttpNext]_vars

(* -------------------------- product operations ----------------------- *)
\* The operations of the product clients; each has a blocking class and an
\* Async class with the same body. ensure_app_key: the operation starts
\* with self._ensure_app_key().
Operation(class, method, ensure_app_key) ==
    [class |-> class, method |-> method, ensure_app_key |-> ensure_app_key]
Operations ==
    {Operation("Reversal", "reverse", FALSE),
     Operation("C2B", "register_url", FALSE),
     Operation("B2BExpressCheckout", "ussd_push", FALSE),
     Operation("BusinessPayBill", "paybill", FALSE),
     Operation("DynamicQRCode", "generate", FALSE),
     Operation("TransactionStatus", "query", FALSE),
     Operation("BillManager", "opt_in", FALSE),
     Operation("BillManager", "update_opt_in", TRUE),
     Operation("BillManager", "send_single_invoice", TRUE),
     Operation("BillManager", "send_bulk_invoice", TRUE),
     Operation("BillManager", "cancel_single_invoice", TRUE),
     Operation("BillManager", "cancel_bulk_invoice", TRUE)}
\* app_key is an attribute of BillManager only (Optional, default None).
AppKeys(operation) ==
    IF operation.class = "BillManager" THEN {PyNone, PyStr(<<"k">>)}
    ELSE {PyNone}

\* What the exchange endpoint answers while an operation fetches its token,
\* and what http_client.post gives the operation.
OpTokenOutcomes ==
    {[kind |-> "ok",
      body |-> [access_token |-> Tok1, expires_in |-> PyInt(1)]],
     [kind |-> "ok",
      body |-> [access_token |-> Tok2, expires_in |-> PyStr(<<"2">>)]],
     [kind |-> "ok",
      body |-> [access_token |-> PyNone, expires_in |-> PyInt(1)]],
     [kind |-> "raise",
      exc |-> MpesaApiException(
                  MpesaError("SOME_CODE", PyStr(<<>>), PyInt(BadRequest),
                             PyNone),
                  PyNone)]}
OpPostOutcomes ==
    {Return(JsonDict(Absent)),
     Raise(MpesaApiException(
               MpesaError("HTTP_401", PyStr(<<"E">>), PyInt(401),
                          JsonDict(PyStr(<<"E">>))),
               PyNone))}

\* f"Bearer {token}".
Bearer(token) == PyStr(<<"B", "e", "a", "r", "e", "r", " ">> \o token.s)

\* self.token_manager.get_token() / await self.token_manager.get_token():
\* no argument, so force_refresh is False.
token_manager_get_token(manager, self_access_token, clock, token_outcome) ==
    IF manager = "TokenManager"
    THEN TokenManager_get_token(self_access_token, FALSE, clock,
                                token_outcome)
    ELSE AsyncTokenManager_get_token(self_access_token, FALSE, clock,
                                     token_outcome)

\* The operation sending the token it finds in the manager's cache when
\* there is one, whatever get_token returned.
Product_operation_cached(operation, app_key, manager, self_access_token, clock, token_outcome, post_outcome) ==
    IF operation.ensure_app_key /\ app_key = PyNone
    THEN [access_token |-> self_access_token, gets |-> 0, events |-> <<>>,
          result |-> Raise([type |-> "ValueError", cause |-> PyNone])]
    ELSE LET r == token_manager_get_token(manager, self_access_token, clock,
                                          token_outcome)
             got == [call |-> "get_token", force |-> FALSE,
                     result |-> r.result, gets |-> r.gets]
         IN  IF r.result.kind = "raise"
             THEN [access_token |-> r.access_token, gets |-> r.gets,
                   events |-> <<got>>, result |-> r.result]
             ELSE [access_token |-> r.access_token, gets |-> r.gets,
                   events |->
                       <<got,
                         [call |-> "post",
                          authorization |-> Bearer(IF self_access_token # PyNone
                                                  THEN self_access_token.token
                                                  ELSE r.result.value),
                          appKey |-> IF operation.ensure_app_key
                                     THEN app_key ELSE Absent,
                          result |-> post_outcome]>>,
                   result |-> post_outcome]

\* The operation catching the manager's error and raising its own
\* REQUEST_FAILED error from it.
Product_operation_wrapping(operation, app_key, manager, self_access_token, clock, token_outcome, post_outcome) ==
    IF operation.ensure_app_key /\ app_key = PyNone
    THEN [access_token |-> self_access_token, gets |-> 0, events |-> <<>>,
          result |-> Raise([type |-> "ValueError", cause |-> PyNone])]
    ELSE LET r == token_manager_get_token(manager, self_access_token, clock,
                                          token_outcome)
             got == [call |-> "get_token", force |-> FALSE,
                     result |-> r.result, gets |-> r.gets]
         IN  IF r.result.kind = "raise"
             THEN [access_token |-> r.access_token, gets |-> r.gets,
                   events |-> <<got>>,
                   result |-> Raise(MpesaApiException(
                                 MpesaError("REQUEST_FAILED", PyStr(<<>>),
                                            PyNone, PyNone),
                                 r.result.exc))]
             ELSE [access_token |-> r.access_token, gets |-> r.gets,
                   events |->
                       <<got,
                         [call |-> "post",
                          authorization |-> Bearer(r.result.value),
                          appKey |-> IF operation.ensure_app_key
                                     THEN app_key ELSE Absent,
                          result |-> post_outcome]>>,
                   result |-> post_outcome]

\* The operation dropping the manager's cached token when its post is
\* rejected.
Product_operation_invalidating(operation, app_key, manager, self_access_token, clock, token_outcome, post_outcome) ==
    IF operation.ensure_app_key /\ app_key = PyNone
    THEN [access_token |-> self_access_token, gets |-> 0, events |-> <<>>,
          result |-> Raise([type |-> "ValueError", cause |-> PyNone])]
    ELSE LET r == token_manager_get_token(manager, self_access_token, clock,
                                          token_outcome)
             got == [call |-> "get_token", force |-> FALSE,
                     result |-> r.result, gets |-> r.gets]
         IN  IF r.result.kind = "raise"
             THEN [access_token |-> r.access_token, gets |-> r.gets,
                   events |-> <<got>>, result |-> r.result]
             ELSE [access_token |-> IF post_outcome.kind = "raise"
                                    THEN PyNone ELSE r.access_token,
                   gets |-> r.gets,
                   events |->
                       <<got,
                         [call |-> "post",
                          authorization |-> Bearer(r.result.value),
                          appKey |-> IF operation.ensure_app_key
                                     THEN app_key ELSE Absent,
                          result |-> post_outcome]>>,
                   result |-> post_outcome]

\* The operation taking its token first and checking app_key only when the
\* manager has no usable cached token.
Product_operation_token_first(operation, app_key, manager, self_access_token, clock, token_outcome, post_outcome) ==
    IF /\ operation.ensure_app_key /\ app_key = PyNone
       /\ ~(IF manager = "TokenManager"
            THEN TokenManager_cache_hit(self_access_token, FALSE, clock)
            ELSE AsyncTokenManager_cache_hit(self_access_token, FALSE, clock))
    THEN [access_token |-> self_access_token, gets |-> 0, events |-> <<>>,
          result |-> Raise([type |-> "ValueError", cause |-> PyNone])]
    ELSE LET r == token_manager_get_token(manager, self_access_token, clock,
                                          token_outcome)
             got == [call |-> "get_token", force |-> FALSE,
                     result |-> r.result, gets |-> r.gets]
         IN  IF r.result.kind = "raise"
             THEN [access_token |-> r.access_token, gets |-> r.gets,
                   events |-> <<got>>, result |-> r.result]
             ELSE [access_token |-> r.access_token, gets |-> r.gets,
                   events |->
                       <<got,
                         [call |-> "post",
                          authorization |-> Bearer(r.result.value),
                          appKey |-> IF operation.ensure_app_key
                                     THEN app_key ELSE Absent,
                          result |-> post_outcome]>>,
                   result |-> post_outcome]

\* One product operation, e.g. Reversal.reverse (reversal.py lines 33-50),
\* BillManager.update_opt_in (bill_manager.py lines 57-71): the app_key
\* check where there is one, the headers with the token, the post.
Product_operation(operation, app_key, manager, self_access_token, clock, token_outcome, post_outcome) ==
    IF operation.ensure_app_key /\ app_key = PyNone
    THEN [access_token |-> self_access_token, gets |-> 0, events |-> <<>>,
          result |-> Raise([type |-> "ValueError", cause |-> PyNone])]
    ELSE LET r == token_manager_get_token(manager, self_access_token, clock,
                                          token_outcome)
             got == [call |-> "get_token", force |-> FALSE,
                     result |-> r.result, gets |-> r.gets]
         IN  IF r.result.kind = "raise"
             THEN [access_token |-> r.access_token, gets |-> r.gets,
                   events |-> <<got>>, result |-> r.result]
             ELSE [access_token |-> r.access_token, gets |-> r.gets,
                   events |->
                       <<got,
                         [call |-> "post",
                          authorization |-> Bearer(r.result.value),
                          appKey |-> IF operation.ensure_app_key
                                     THEN app_key ELSE Absent,
                          result |-> post_outcome]>>,
                   result |-> post_outcome]

OpInit ==
    /\ variant \in {"TokenManager", "AsyncTokenManager"}
    /\ access_token = PyNone
    /\ now = 0
    /\ calls = 0
    /\ last = NoCall
    /\ pair = NoPair
    /\ http = NoHttp
    /\ op = [op |-> "new"]
    /\ conc = NoConc

\* A client bound to the manager runs one operation from call to return.
OpRun ==
    /\ op.op \in {"new", "run"}
    /\ calls < MaxCalls
    /\ \E operation \in Operations, post_outcome \in OpPostOutcomes :
          \E app_key \in AppKeys(operation) :
             \E token_outcome \in
                    IF \/ operation.ensure_app_key /\ app_key = PyNone
                       \/ variant = "TokenManager"
                          /\ TokenManager_cache_hit(access_token, FALSE, now)
                       \/ variant = "AsyncTokenManager"
                          /\ AsyncTokenManager_cache_hit(access_token, FALSE,
                                                         now)
                    THEN {NoOutcome} ELSE OpTokenOutcomes :
                LET r == Product_operation(operation, app_key, variant,
                                           access_token, now, token_outcome,
                                           post_outcome)
                IN  /\ access_token' = r.access_token
                    /\ calls' = calls + r.gets
                    /\ op' = [op |-> "run", operation |-> operation,
                              app_key |-> app_key, pre |-> access_token,
                              events |-> r.events, result |-> r.result]
    /\ UNCHANGED <<variant, now, last, pair, http, conc>>

\* Time passes between operations.
OpTick ==
    /\ op.op \in {"new", "run"}
    /\ now < MaxTime
    /\ now' = now + 1
    /\ UNCHANGED <<variant, access_token, calls, last, pair, http, op, conc>>

OpNext == OpRun \/ OpTick

OpSpec == OpInit /\ [][OpNext]_vars

(* ------------- a product operation with its post attempts ------------ *)
\* The operations followed attempt by attempt, the payloads they are given
\* and what one raw post attempt may end with.
SendOperations ==
    {Operation("Reversal", "reverse", FALSE),
     Operation("BillManager", "update_opt_in", TRUE)}
Payloads == {"p1", "p2"}
\* Exchange calls and clock ticks looked at while an operation is followed.
MaxSendCalls == 2
MaxSendTime == 2
SendOutcomes ==
    HttpxErrors
    \cup {[kind |-> "response", status_code |-> 200,
           body |-> HttpBody(<<"{", "}">>, JsonDict(Absent))],
          [kind |-> "response", status_code |-> 400,
           body |-> HttpBody(<<"{", "E", "}">>, JsonDict(PyStr(<<"E">>)))]}

\* An operation in progress: the arguments post was called with (json,
\* headers), the get_token calls the operation has made, the AccessToken the
\* manager held when the headers were built, the raw attempts so far (what
\* went on the wire, when, and how the attempt ended) and the result.
SendState(pc, operation, json, headers, got, held, attempts, result) ==
    [op |-> "send", pc |-> pc, operation |-> operation, json |-> json,
     headers |-> headers, got |-> got, held |-> held, attempts |-> attempts,
     result |-> result]

\* The exchange outcomes a get_token call at this moment may meet: none when
\* the cache check passes.
SendTokenOutcomes(force_refresh) ==
    IF \/ variant = "TokenManager"
          /\ TokenManager_cache_hit(access_token, force_refresh, now)
       \/ variant = "AsyncTokenManager"
          /\ AsyncTokenManager_cache_hit(access_token, force_refresh, now)
    THEN {NoOutcome} ELSE OpTokenOutcomes

\* One call of the wrapped _raw_post by the retry loop (lines 133-146): the
\* request sent is made of the arguments post received.
MpesaHttpClient_raw_post(json, headers) ==
    [json |-> json, Authorization |-> headers.Authorization,
     appKey |-> headers.appKey, at |-> now]

SendInit ==
    /\ variant \in {"TokenManager", "AsyncTokenManager"}
    /\ access_token = PyNone
    /\ now = 0
    /\ calls = 0
    /\ last = NoCall
    /\ pair = NoPair
    /\ http = NoHttp
    /\ op = [op |-> "send", pc |-> "new"]
    /\ conc = NoConc

\* The operation is called: app_key check, headers with the token of
\* get_token(), then http_client.post(url, json, headers) begins.
SendStart ==
    /\ op.op = "send" /\ op.pc \in {"new", "done"}
    /\ calls < MaxSendCalls
    /\ \E operation \in SendOperations, json \in Payloads :
          \E app_key \in AppKeys(operation) :
             \E token_outcome \in
                    IF operation.ensure_app_key /\ app_key = PyNone
                    THEN {NoOutcome} ELSE SendTokenOutcomes(FALSE) :
                LET r == Product_operation(operation, app_key, variant,
                                           access_token, now, token_outcome,
                                           NoOutcome)
                IN  /\ access_token' = r.access_token
                    /\ calls' = calls + r.gets
                    /\ op' = IF Len(r.events) = 2
                             THEN SendState(
                                      "raw", operation, json,
                                      [Authorization |->
                                           r.events[2].authorization,
                                       appKey |-> r.events[2].appKey],
                                      1, r.access_token, <<>>, NoOutcome)
                             ELSE SendState("done", operation, json, PyNone,
                                            Len(r.events), PyNone, <<>>,
                                            r.result)
    /\ UNCHANGED <<variant, now, last, pair, http, conc>>

\* The retry loop asking the manager for a token again before every
\* attempt and sending that one.
SendAttempt_refetching ==
    /\ op.op = "send" /\ op.pc = "raw"
    /\ \E outcome \in SendOutcomes, token_outcome \in SendTokenOutcomes(FALSE) :
          LET r == token_manager_get_token(variant, access_token, now,
                                           token_outcome)
              headers == IF r.result.kind = "return"
                         THEN [op.headers EXCEPT
                                  !.Authorization = Bearer(r.result.value)]
                         ELSE op.headers
              attempts == Append(op.attempts,
                                 [sent |-> MpesaHttpClient_raw_post(op.json,
                                                                    headers),
                                  outcome |-> outcome])
              decision == Retrying(Len(attempts), outcome)
          IN  /\ access_token' = r.access_token
              /\ calls' = calls + r.gets
              /\ op' = [op EXCEPT
                          !.pc = IF decision = "sleep" THEN "raw" ELSE "done",
                          !.got = IF @ < 2 THEN @ + 1 ELSE @,
                          !.attempts = attempts,
                          !.result = IF decision = "sleep" THEN NoOutcome
                                     ELSE MpesaHttpClient_post(outcome,
                                                               decision)]
    /\ UNCHANGED <<variant, now, last, pair, http, conc>>

\* One raw attempt of the post ends; the retry loop goes on to the next
\* attempt (after its wait) or post ends and with it the operation.
SendAttempt ==
    /\ op.op = "send" /\ op.pc = "raw"
    /\ \E outcome \in SendOutcomes :
          LET attempts == Append(op.attempts,
                                 [sent |-> MpesaHttpClient_raw_post(
                                               op.json, op.headers),
                                  outcome |-> outcome])
              decision == Retrying(Len(attempts), outcome)
          IN  op' = [op EXCEPT
                        !.pc = IF decision = "sleep" THEN "raw" ELSE "done",
                        !.attempts = attempts,
                        !.result = IF decision = "sleep" THEN NoOutcome
                                   ELSE MpesaHttpClient_post(outcome,
                                                             decision)]
    /\ UNCHANGED <<variant, access_token, now, calls, last, pair, http, conc>>

\* Another user of the same manager calls get_token while the post is in
\* progress.
SendOther ==
    /\ op.op = "send" /\ op.pc = "raw"
    /\ calls < MaxSendCalls
    /\ \E force_refresh \in BOOLEAN :
          \E token_outcome \in SendTokenOutcomes(force_refresh) :
             LET r == IF variant = "TokenManager"
                      THEN TokenManager_get_token(access_token, force_refresh,
                                                  now, token_outcome)
                      ELSE AsyncTokenManager_get_token(access_token,
                                                       force_refresh, now,
                                                       token_outcome)
             IN  /\ r.gets = 1
                 /\ access_token' = r.access_token
                 /\ calls' = calls + r.gets
    /\ UNCHANGED <<variant, now, last, pair, http, op, conc>>

\* Time passes: between operations, and while the retry loop waits.
SendTick ==
    /\ op.op = "send"
    /\ now < MaxSendTime
    /\ now' = now + 1
    /\ UNCHANGED <<variant, access_token, calls, last, pair, http, op, conc>>

SendNext == SendStart \/ SendAttempt \/ SendOther \/ SendTick

SendSpec == SendInit /\ [][SendNext]_vars

(* ------------ get_token with the attempts of its transport get ------- *)
\* What one raw attempt of the exchange get may end with: an error of httpx
\* that is retried, one that is not, a 200 with a token, a 500 whose body
\* is not a JSON object.
TokenJson(token, expires) ==
    [t |-> "dict", errorMessage |-> Absent, access_token |-> token,
     expires_in |-> expires]
GetOutcomes ==
    {HttpxError("ReadTimeout", PyStr(<<"r", "t">>)),
     HttpxError("ReadError", PyStr(<<"r", "e">>)),
     [kind |-> "response", status_code |-> 200,
      body |-> [text |-> PyStr(<<"{", "t", "}">>),
                json |-> TokenJson(Tok1, PyInt(1))]],
     [kind |-> "response", status_code |-> 500,
      body |-> HttpBody(<<"[", "]">>, JsonList)]}

\* One caller of get_token: where it is in the call (idle: not in a call;
\* raw: an attempt of _raw_get in flight; sleep: the retry loop waiting;
\* got: http_client.get has ended), the attempt it is at, what
\* http_client.get gave, and what its last call gave.
Getter(pc, attempt_number, response, result) ==
    [pc |-> pc, attempt_number |-> attempt_number, response |-> response,
     result |-> result]

\* get_token from line 52 / 129 on, http_client.get having ended with the
\* given result: an exception that is not an MpesaApiException passes
\* through the except clause.
get_token_after_get(manager, self_access_token, clock, response) ==
    IF response.kind = "raise" /\ response.exc.type # "MpesaApiException"
    THEN [access_token |-> self_access_token, result |-> response, gets |-> 1]
    ELSE LET outcome == IF response.kind = "raise"
                        THEN [kind |-> "raise", exc |-> response.exc]
                        ELSE [kind |-> "ok", body |-> response.value]
         IN  IF manager = "TokenManager"
             THEN IF outcome.kind = "raise"
                  THEN [access_token |-> self_access_token,
                        result |-> TokenManager_on_exception(outcome.exc),
                        gets |-> 1]
                  ELSE TokenManager_on_response(self_access_token,
                                                outcome.body, clock)
                       @@ [gets |-> 1]
             ELSE IF outcome.kind = "raise"
                  THEN [access_token |-> self_access_token,
                        result |-> AsyncTokenManager_on_exception(outcome.exc),
                        gets |-> 1]
                  ELSE AsyncTokenManager_on_response(self_access_token,
                                                     outcome.body, clock)
                       @@ [gets |-> 1]

GetInit ==
    /\ variant \in {"TokenManager", "AsyncTokenManager"}
    /\ access_token = PyNone
    /\ now = 0
    /\ calls = 0
    /\ last = NoCall
    /\ pair = NoPair
    /\ http = NoHttp
    /\ op = NoOp
    /\ conc = [op |-> "get",
               of |-> [c \in Callers |->
                          Getter("idle", 0, NoOutcome, NoOutcome)]]

GetMove(c, getter) == conc' = [conc EXCEPT !.of[c] = getter]

\* Caller c calls get_token: the cache check, then either the return of the
\* cached token or the first attempt of the exchange get.
GetCall(c) ==
    /\ conc.op = "get" /\ conc.of[c].pc = "idle"
    /\ calls < MaxExchanges
    /\ \E force_refresh \in BOOLEAN :
          IF \/ variant = "TokenManager"
                /\ TokenManager_cache_hit(access_token, force_refresh, now)
             \/ variant = "AsyncTokenManager"
                /\ AsyncTokenManager_cache_hit(access_token, force_refresh,
                                               now)
          THEN /\ GetMove(c, Getter("idle", 0, NoOutcome,
                                    Return(access_token.token)))
               /\ calls' = calls
          ELSE /\ GetMove(c, Getter("raw", 1, NoOutcome, NoOutcome))
               /\ calls' = calls + 1
    /\ UNCHANGED <<variant, access_token, now, last, pair, http, op>>

\* The attempt of caller c waiting until no other caller has one in flight.
GetAttempt_exclusive(c) ==
    /\ conc.op = "get" /\ conc.of[c].pc = "raw"
    /\ \A d \in Callers \ {c} : conc.of[d].pc = "idle"
    /\ \E outcome \in GetOutcomes :
          LET decision == Retrying(conc.of[c].attempt_number, outcome)
          IN  IF decision = "sleep"
              THEN GetMove(c, [conc.of[c] EXCEPT !.pc = "sleep"])
              ELSE GetMove(c, [conc.of[c] EXCEPT
                                  !.pc = "got",
                                  !.response = MpesaHttpClient_get(outcome,
                                                                   decision)])
    /\ UNCHANGED <<variant, access_token, now, calls, last, pair, http, op>>

\* The attempt of caller c ends (httpx answers, fails, or times out after
\* timeout=10 seconds); the retry loop decides what follows.
GetAttempt(c) ==
    /\ conc.op = "get" /\ conc.of[c].pc = "raw"
    /\ \E outcome \in GetOutcomes :
          LET decision == Retrying(conc.of[c].attempt_number, outcome)
          IN  IF decision = "sleep"
              THEN GetMove(c, [conc.of[c] EXCEPT !.pc = "sleep"])
              ELSE GetMove(c, [conc.of[c] EXCEPT
                                  !.pc = "got",
                                  !.response = MpesaHttpClient_get(outcome,
                                                                   decision)])
    /\ UNCHANGED <<variant, access_token, now, calls, last, pair, http, op>>

\* The wait of the retry loop (at most 8 seconds) is over: next attempt.
GetWake(c) ==
    /\ conc.op = "get" /\ conc.of[c].pc = "sleep"
    /\ GetMove(c, [conc.of[c] EXCEPT !.pc = "raw", !.attempt_number = @ + 1])
    /\ UNCHANGED <<variant, access_token, now, calls, last, pair, http, op>>

\* http_client.get has ended: get_token runs to its return or raise.
GetReturn(c) ==
    /\ conc.op = "get" /\ conc.of[c].pc = "got"
    /\ LET r == get_token_after_get(variant, access_token, now,
                                    conc.of[c].response)
       IN  /\ access_token' = r.access_token
           /\ GetMove(c, Getter("idle", 0, NoOutcome, r.result))
    /\ UNCHANGED <<variant, now, calls, last, pair, http, op>>

GetTick ==
    /\ conc.op = "get"
    /\ now < MaxConcTime
    /\ now' = now + 1
    /\ UNCHANGED <<variant, access_token, calls, last, pair, http, op, conc>>

GetNext ==
    \/ \E c \in Callers : GetCall(c)
    \/ \E c \in Callers : GetAttempt(c)
    \/ \E c \in Callers : GetWake(c)
    \/ \E c \in Callers : GetReturn(c)
    \/ GetTick

GetSpec == GetInit /\ [][GetNext]_vars

\* Every attempt ends (timeout), every wait ends (bounded), and the code
\* after http_client.get runs on.
GetFairSpec ==
    /\ GetSpec
    /\ \A c \in Callers :
          /\ WF_vars(GetAttempt(c))
          /\ WF_vars(GetWake(c))
          /\ WF_vars(GetReturn(c))

(* ------------------------------ properties ---------------------------- *)
IsCall == last.op = "get_token"

\* The step is a get_token call (Tick leaves last and calls alone).
CallStep == last'.op = "get_token" /\ (last' # last \/ calls' # calls)

\* C1: a call that finds a cached, unexpired token and is not forced returns
\* the cached token string and makes no transport call (both variants).
C1_FastPath ==
    (IsCall /\ last.pre # PyNone /\ ~last.force
       /\ ~is_expired(last.pre, last.at))
    => /\ last.result = Return(last.pre.token)
       /\ last.gets = 0
       /\ last.outcome = NoOutcome

C1_Witness ==
    /\ IsCall /\ variant = "AsyncTokenManager"
    /\ last.pre # PyNone /\ ~last.force
    /\ ~is_expired(last.pre, last.at)
    /\ last.at > last.pre.creation_datetime
    /\ last.gets = 0 /\ calls = 1

\* C2: a forced call makes exactly one exchange call whatever the cache
\* holds; when it succeeds the cache holds the exchanged token, and the next
\* unforced call is served that token from the cache (or, the new token
\* having expired by then, makes its own exchange): the earlier token is
\* never served again.
C2_ForceRefresh ==
    /\ [](IsCall /\ last.force =>
            /\ last.gets = 1
            /\ last.result.kind = "return" =>
                  /\ last.outcome.kind = "ok"
                  /\ last.result.value = last.outcome.body.access_token
                  /\ access_token.token = last.outcome.body.access_token)
    /\ [][(IsCall /\ last.force /\ last.result.kind = "return"
             /\ CallStep /\ ~last'.force)
          => IF is_expired(access_token, now)
             THEN last'.gets = 1
             ELSE /\ last'.gets = 0
                  /\ last'.result = Return(last.result.value)]_vars

C2_Witness ==
    /\ IsCall /\ variant = "TokenManager" /\ last.force
    /\ last.pre # PyNone /\ ~is_expired(last.pre, last.at)
    /\ last.gets = 1 /\ last.result.kind = "return"
    /\ last.result.value # last.pre.token
    /\ access_token.token = last.result.value

\* C3: an unforced call that finds a cached token with
\* creation_time + validity_duration <= now (equality included) makes exactly
\* one exchange call and, when it returns, returns that exchange's token; a
\* token with creation_time + validity_duration > now is still served.
C3_ExactBoundary ==
    (IsCall /\ last.pre # PyNone /\ ~last.force) =>
        IF last.pre.creation_datetime + last.pre.expiration_time <= last.at
        THEN /\ last.gets = 1
             /\ last.result.kind = "return" =>
                   /\ last.outcome.kind = "ok"
                   /\ last.result.value = last.outcome.body.access_token
        ELSE /\ last.gets = 0
             /\ last.result = Return(last.pre.token)

C3_Witness ==
    /\ IsCall /\ variant = "AsyncTokenManager" /\ ~last.force
    /\ last.pre # PyNone
    /\ last.pre.expiration_time > 0
    /\ last.pre.creation_datetime + last.pre.expiration_time = last.at
    /\ last.gets = 1 /\ last.result.kind = "return"
    /\ last.result.value # last.pre.token

\* C4 (as claimed): every decoded body whose access_token is missing, empty
\* or otherwise falsy makes get_token raise TOKEN_MISSING carrying that body
\* and no status code.
C4_TokenMissing ==
    (IsCall /\ last.outcome.kind = "ok"
       /\ ~truthy(last.outcome.body.access_token))
    => /\ last.result.kind = "raise"
       /\ last.result.exc.type = "MpesaApiException"
       /\ last.result.exc.error.error_code = "TOKEN_MISSING"
       /\ last.result.exc.error.status_code = PyNone
       /\ last.result.exc.error.raw_response = last.outcome.body

\* C5: a transport error with status_code 400 and an empty or absent
\* error_message, whatever its error_code, comes out of get_token as a new
\* AUTH_INVALID_CREDENTIALS error with the fixed message and status 400
\* whose cause is the original exception.
C5_InvalidCredentials ==
    (IsCall /\ last.outcome.kind = "raise"
       /\ last.outcome.exc.error.status_code = PyInt(400)
       /\ last.outcome.exc.error.error_message \in {PyNone, PyStr(<<>>)})
    => /\ last.result.kind = "raise"
       /\ last.result.exc.type = "MpesaApiException"
       /\ last.result.exc.error.error_code = "AUTH_INVALID_CREDENTIALS"
       /\ last.result.exc.error.error_message = InvalidCredentialsMessage
       /\ last.result.exc.error.status_code = PyInt(400)
       /\ last.result.exc.cause = last.outcome.exc

C5_Witness ==
    /\ IsCall /\ variant = "TokenManager"
    /\ last.outcome.kind = "raise"
    /\ last.outcome.exc.error.status_code = PyInt(400)
    /\ last.outcome.exc.error.error_message = PyStr(<<>>)
    /\ last.outcome.exc.error.error_code = "SOME_CODE"
    /\ last.result.exc.error.error_code = "AUTH_INVALID_CREDENTIALS"

\* C6: every other transport error (a 400 with a non-empty message, another
\* status code, no status code) comes out of get_token as the very exception
\* the transport raised.
C6_PassThrough ==
    (IsCall /\ last.outcome.kind = "raise"
       /\ ~(/\ last.outcome.exc.error.status_code = PyInt(400)
            /\ last.outcome.exc.error.error_message \in {PyNone, PyStr(<<>>)}))
    => last.result = Raise(last.outcome.exc)

C6_Witness ==
    /\ IsCall /\ variant = "AsyncTokenManager"
    /\ last.outcome.kind = "raise"
    /\ last.outcome.exc.error.status_code = PyInt(400)
    /\ last.outcome.exc.error.error_message = PyStr(<<"F">>)
    /\ last.result = Raise(last.outcome.exc)

\* C7: every call returns a non-empty token string or raises; it returns
\* after an exchange only when the transport returned a body with a truthy
\* access_token.
C7_TokenOrRaise ==
    IsCall =>
        \/ last.result.kind = "raise"
        \/ /\ last.result.kind = "return"
           /\ last.result.value.t = "str"
           /\ Len(last.result.value.s) > 0
           /\ last.gets = 1 =>
                 /\ last.outcome.kind = "ok"
                 /\ truthy(last.outcome.body.access_token)

C7_Witness ==
    /\ IsCall /\ variant = "TokenManager"
    /\ last.outcome.kind = "ok"
    /\ last.outcome.body.access_token = PyStr(<<>>)
    /\ last.outcome.body.expires_in = PyInt(1)
    /\ last.result.kind = "raise"

\* Validity in seconds that a body's expires_in entry stands for.
ValidityOf(body) ==
    IF body.expires_in = Absent THEN 3600 ELSE py_int(body.expires_in).v

\* C8 (as claimed): after any successful exchange, an unforced call made
\* with no time elapsed returns the same token string and makes no exchange
\* call.
C8_CacheHitAfterExchange ==
    [][(IsCall /\ last.gets = 1 /\ last.result.kind = "return"
          /\ now = last.at /\ CallStep /\ ~last'.force)
       => /\ last'.gets = 0
          /\ last'.result = Return(last.result.value)]_vars

\* C8 (amended): the same for every successful exchange whose validity
\* (expires_in, or the default) is at least one second.
C8_CacheHitAfterExchangePositive ==
    [][(IsCall /\ last.gets = 1 /\ last.result.kind = "return"
          /\ ValidityOf(last.outcome.body) > 0
          /\ now = last.at /\ CallStep /\ ~last'.force)
       => /\ last'.gets = 0
          /\ last'.result = Return(last.result.value)]_vars

C8_Witness ==
    /\ IsCall /\ variant = "TokenManager" /\ ~last.force
    /\ last.pre # PyNone
    /\ last.pre.creation_datetime = last.at
    /\ last.pre.expiration_time = 1
    /\ last.gets = 0
    /\ last.result = Return(last.pre.token)

\* C9 (as claimed): a body with a truthy access_token whose expires_in is
\* absent or falsy gives a cached token of validity 3600.
C9_DefaultWhenAbsentOrFalsy ==
    (IsCall /\ last.outcome.kind = "ok"
       /\ truthy(last.outcome.body.access_token)
       /\ ~truthy(last.outcome.body.expires_in))
    => /\ last.result.kind = "return"
       /\ access_token.expiration_time = 3600

\* C9 (amended): a body with a truthy access_token and no expires_in entry
\* gives a cached token of validity 3600, and get_token returns its token.
C9_DefaultWhenAbsent ==
    (IsCall /\ last.outcome.kind = "ok"
       /\ truthy(last.outcome.body.access_token)
       /\ last.outcome.body.expires_in = Absent)
    => /\ last.result = Return(last.outcome.body.access_token)
       /\ access_token.token = last.outcome.body.access_token
       /\ access_token.expiration_time = 3600

C9_Witness ==
    /\ IsCall /\ variant = "AsyncTokenManager"
    /\ last.outcome.kind = "ok"
    /\ last.outcome.body = [access_token |-> Tok2, expires_in |-> Absent]
    /\ last.result = Return(Tok2)
    /\ access_token.expiration_time = 3600

\* C10 (as claimed): whatever get_token raises is an MpesaApiException.
C10_OnlyApiErrors ==
    (IsCall /\ last.result.kind = "raise")
    => last.result.exc.type = "MpesaApiException"

\* C11: a get_token call makes at most one http_client.get call; when that
\* call raises, get_token raises at once, having made exactly that one call.
C11_NoRetry ==
    /\ [](IsCall =>
            /\ last.gets \in {0, 1}
            /\ last.outcome.kind = "raise" =>
                  /\ last.gets = 1
                  /\ last.result.kind = "raise")
    /\ [][calls' \in {calls, calls + 1}]_vars

C11_Witness ==
    /\ IsCall /\ variant = "TokenManager"
    /\ last.outcome.kind = "raise"
    /\ last.outcome.exc.error.error_code = "REQUEST_TIMEOUT"
    /\ last.outcome.exc.error.status_code = PyNone
    /\ last.result = Raise(last.outcome.exc)
    /\ last.gets = 1 /\ calls = 1

\* C12: given the same calls, the same transport outcomes and the same clock
\* readings, the blocking and the async manager give the same result or the
\* same error (kind, fields, cause) at every call, make the same number of
\* http_client.get calls and hold the same cached token.
C12_Equivalent ==
    pair.op # "idle" =>
        /\ pair.sync.result = pair.async.result
        /\ pair.sync.gets = pair.async.gets
        /\ pair.sync.calls = pair.async.calls
        /\ pair.sync.cache = pair.async.cache

C12_Witness ==
    /\ pair.op = "get_token" /\ ~pair.force
    /\ pair.sync.cache # PyNone
    /\ is_expired(pair.sync.cache, now)
    /\ pair.sync.result.kind = "raise"
    /\ pair.sync.result.exc.type = "MpesaApiException"
    /\ pair.sync.result.exc.error.error_code = "AUTH_INVALID_CREDENTIALS"
    /\ pair.async.calls = 2

\* The AccessToken that the successful exchange e of the log produced.
FromExchange(tok, e) ==
    tok = AccessToken(e.body.access_token, e.at, ValidityOf(e.body))

\* C13: with callers interleaved on one manager, the cache slot is absent or
\* one complete AccessToken whose token, creation time and validity all come
\* from one and the same successful exchange, and every token a caller got
\* back is the token of a successful exchange.
C13_CompleteToken ==
    conc.op = "shared" =>
        /\ \/ access_token = PyNone
           \/ \E i \in 1 .. Len(conc.log) :
                 FromExchange(access_token, conc.log[i])
        /\ \A c \in Callers :
              conc.of[c].result.kind = "return" =>
                  \E i \in 1 .. Len(conc.log) :
                      conc.of[c].result.value = conc.log[i].body.access_token

C13_Witness ==
    /\ conc.op = "shared" /\ variant = "TokenManager"
    /\ conc.peak = 2 /\ Len(conc.log) = 2
    /\ conc.log[1].body # conc.log[2].body
    /\ conc.log[1].at # conc.log[2].at
    /\ FromExchange(access_token, conc.log[2])
    /\ \E c \in Callers :
          /\ conc.of[c].pc = "idle"
          /\ conc.of[c].result = Return(conc.log[1].body.access_token)

\* C14: nothing serialises the exchanges of callers sharing one manager, and
\* the cache always holds the token of the successful exchange that wrote
\* last (absent before the first), whatever it held before that write.
C14_LastWriteWins ==
    conc.op = "shared" =>
        IF conc.log = <<>> THEN access_token = PyNone
        ELSE FromExchange(access_token, conc.log[Len(conc.log)])

\* Two tasks, neither forcing a refresh, have both found the cache absent and
\* both have their exchange call in flight.
C14_Witness ==
    /\ conc.op = "shared" /\ variant = "AsyncTokenManager"
    /\ access_token = PyNone
    /\ calls = 2 /\ conc.peak = 2
    /\ \E c1, c2 \in Callers :
          /\ c1 # c2
          /\ conc.of[c1].pc = "inflight" /\ ~conc.of[c1].force
          /\ conc.of[c2].pc = "inflight" /\ ~conc.of[c2].force

\* The request's attempts so far, and the outcome of the latest one.
InRequest == http.pc \in {"raw", "done"}
LastAttempt == http.attempts[Len(http.attempts)]
Transient(outcome) ==
    /\ outcome.kind = "exception"
    /\ outcome.class \in {"ReadTimeout", "ConnectError"}

\* C15: a get or post whose attempts all fail with a timeout or a connection
\* error ends after exactly 3 attempts with a typed API error,
\* REQUEST_TIMEOUT when the (last) failure is a timeout and CONNECTION_ERROR
\* when it is a connection error; no request ever has a fourth attempt.
C15_Exhaustion ==
    InRequest =>
        /\ Len(http.attempts) <= 3
        /\ (Len(http.attempts) = 3 => http.pc = "done")
        /\ (/\ http.pc = "done"
            /\ \A i \in 1 .. Len(http.attempts) : Transient(http.attempts[i]))
           => /\ Len(http.attempts) = 3
              /\ http.result =
                   Raise(MpesaApiException(
                       MpesaError(IF LastAttempt.class = "ReadTimeout"
                                  THEN "REQUEST_TIMEOUT"
                                  ELSE "CONNECTION_ERROR",
                                  LastAttempt.str, PyNone, PyNone),
                       LastAttempt))

C15_Witness ==
    /\ http.pc = "done" /\ http.method = "post"
    /\ Len(http.attempts) = 3
    /\ \A i \in 1 .. 3 :
          /\ http.attempts[i].kind = "exception"
          /\ http.attempts[i].class = "ReadTimeout"
    /\ http.result.kind = "raise"
    /\ http.result.exc.error.error_code = "REQUEST_TIMEOUT"

\* C16: a get or post that fails transiently k < 3 times and then gets a
\* 2xx response with a decodable body has made exactly k+1 attempts, makes no
\* attempt after that response and returns the decoded body.
C16_StopsAtSuccess ==
    InRequest =>
        \A i \in 1 .. Len(http.attempts) :
            (/\ http.attempts[i].kind = "response"
             /\ http.attempts[i].status_code \in 200 .. 299
             /\ http.attempts[i].body.json # NotJson)
            => /\ i = Len(http.attempts)
               /\ i <= 3
               /\ \A j \in 1 .. i - 1 : Transient(http.attempts[j])
               /\ http.pc = "done"
               /\ http.result = Return(http.attempts[i].body.json)

C16_Witness ==
    /\ http.pc = "done" /\ http.method = "post"
    /\ Len(http.attempts) = 3
    /\ http.attempts[1].class = "ReadTimeout"
    /\ http.attempts[2].class = "ConnectError"
    /\ http.attempts[3].kind = "response"
    /\ http.attempts[3].status_code = 200
    /\ http.result = Return(JsonDict(PyStr(<<"E">>)))

\* C17: a request exception that is neither a timeout nor a connection error
\* is not retried: the attempt that raised it is the last one (the only one
\* when it is the first) and the request raises REQUEST_FAILED.
C17_NotRetried ==
    InRequest =>
        \A i \in 1 .. Len(http.attempts) :
            (/\ http.attempts[i].kind = "exception"
             /\ ~Transient(http.attempts[i]))
            => /\ i = Len(http.attempts)
               /\ http.pc = "done"
               /\ http.result.kind = "raise"
               /\ http.result.exc.type = "MpesaApiException"
               /\ http.result.exc.error.error_code = "REQUEST_FAILED"
               /\ http.result.exc.cause = http.attempts[i]

C17_Witness ==
    /\ http.pc = "done" /\ http.method = "get"
    /\ Len(http.attempts) = 1
    /\ http.attempts[1].kind = "exception"
    /\ http.attempts[1].class = "ReadError"
    /\ http.result.kind = "raise"
    /\ http.result.exc.error.error_code = "REQUEST_FAILED"
    /\ http.result.exc.error.status_code = PyNone

\* C18 (as claimed): a non-2xx response ends the request with no further
\* attempt and an API error of kind HTTP_<status> carrying the status code
\* and, as message, the body's errorMessage entry, or the stripped text when
\* the body is not JSON (empty when there is none).
C18_HttpError ==
    InRequest =>
        \A i \in 1 .. Len(http.attempts) :
            (/\ http.attempts[i].kind = "response"
             /\ http.attempts[i].status_code \notin 200 .. 299)
            => LET response == http.attempts[i]
               IN  /\ i = Len(http.attempts)
                   /\ http.pc = "done"
                   /\ http.result.kind = "raise"
                   /\ http.result.exc.type = "MpesaApiException"
                   /\ http.result.exc.error.error_code =
                          "HTTP_" \o ToString(response.status_code)
                   /\ http.result.exc.error.status_code =
                          PyInt(response.status_code)
                   /\ http.result.exc.error.error_message =
                          IF response.body.json = NotJson
                          THEN py_strip(response.body.text)
                          ELSE IF /\ response.body.json.t = "dict"
                                  /\ response.body.json.errorMessage # Absent
                          THEN response.body.json.errorMessage
                          ELSE PyStr(<<>>)

\* C19 (as claimed): every get that fails (attempts used up on timeouts or
\* connection errors, another request error, a non-2xx status, a 2xx body
\* that does not decode) raises the shared API error type and nothing else.
C19_AlwaysApiError ==
    (/\ http.pc = "done" /\ http.method = "get"
     /\ \/ LastAttempt.kind = "exception"
        \/ LastAttempt.status_code \notin 200 .. 299
        \/ LastAttempt.body.json = NotJson)
    => /\ http.result.kind = "raise"
       /\ http.result.exc.type = "MpesaApiException"

\* C20 (as claimed): every product operation makes one get_token call and
\* then one post whose Authorization header is "Bearer " and the token
\* get_token returned.
C20_TokenThenPostAlways ==
    op.op = "run" =>
        /\ Len(op.events) = 2
        /\ op.events[1].call = "get_token"
        /\ op.events[2].call = "post"
        /\ op.events[2].authorization =
               PyStr(<<"B", "e", "a", "r", "e", "r", " ">>
                     \o op.events[1].result.value.s)

\* C20 (amended): every product operation that gets past its app_key check
\* starts with exactly one unforced get_token call; when that call returns,
\* exactly one post follows, whose Authorization header is "Bearer " and the
\* returned token, and its outcome is the operation's; when the call raises,
\* no post is made and the error is the operation's. An operation stopped by
\* the app_key check calls neither.
C20_TokenThenPost ==
    op.op = "run" =>
        IF op.operation.ensure_app_key /\ op.app_key = PyNone
        THEN op.events = <<>>
        ELSE /\ Len(op.events) >= 1
             /\ op.events[1].call = "get_token"
             /\ ~op.events[1].force
             /\ op.events[1].gets \in {0, 1}
             /\ \A i \in 2 .. Len(op.events) : op.events[i].call = "post"
             /\ IF op.events[1].result.kind = "return"
                THEN /\ Len(op.events) = 2
                     /\ op.events[2].authorization =
                            PyStr(<<"B", "e", "a", "r", "e", "r", " ">>
                                  \o op.events[1].result.value.s)
                     /\ op.result = op.events[2].result
                ELSE /\ Len(op.events) = 1
                     /\ op.result = op.events[1].result

C20_Witness ==
    /\ op.op = "run" /\ variant = "AsyncTokenManager"
    /\ op.operation = Operation("Reversal", "reverse", FALSE)
    /\ op.pre # PyNone /\ op.pre.token = Tok1
    /\ Len(op.events) = 2
    /\ op.events[1].gets = 1
    /\ op.events[1].result = Return(Tok2)
    /\ op.events[2].authorization =
           PyStr(<<"B", "e", "a", "r", "e", "r", " ", "t", "2">>)
    /\ op.result.kind = "return"

\* C21: when get_token raises inside a product operation, the operation
\* makes no post and its caller gets the manager's error itself, kind, fields
\* and cause unchanged.
C21_TokenErrorPropagates ==
    (/\ op.op = "run"
     /\ \E i \in 1 .. Len(op.events) :
           /\ op.events[i].call = "get_token"
           /\ op.events[i].result.kind = "raise")
    => /\ \A i \in 1 .. Len(op.events) : op.events[i].call # "post"
       /\ op.result = op.events[1].result

C21_Witness ==
    /\ op.op = "run" /\ variant = "TokenManager"
    /\ op.operation = Operation("C2B", "register_url", FALSE)
    /\ op.events # <<>>
    /\ op.events[1].gets = 1
    /\ op.result.kind = "raise"
    /\ op.result.exc.type = "MpesaApiException"
    /\ op.result.exc.error.error_code = "AUTH_INVALID_CREDENTIALS"
    /\ op.result.exc.cause.error.error_code = "SOME_CODE"

\* C22: in the async variant a task is only ever at rest or suspended in the
\* exchange call. One step takes it through the cache check and the
\* fast-path return, which gives the token the valid cache holds at that
\* moment and leaves the cache alone; one step takes it from the end of the
\* exchange call through the cache write to the return, which gives the token
\* of its own exchange response.
C22_TasksAtomic ==
    [][(conc.op = "shared" /\ variant = "AsyncTokenManager") =>
          \A c \in Callers :
             /\ conc'.of[c].pc \in {"idle", "inflight"}
             /\ (/\ conc.of[c].pc = "idle" /\ conc'.of[c].pc = "idle"
                 /\ conc'.of[c] # conc.of[c])
                => /\ access_token # PyNone
                   /\ ~is_expired(access_token, now)
                   /\ conc'.of[c].result = Return(access_token.token)
                   /\ access_token' = access_token
                   /\ calls' = calls
             /\ (/\ conc.of[c].pc = "inflight" /\ conc'.of[c].pc = "idle"
                 /\ conc'.of[c].result.kind = "return")
                => /\ Len(conc'.log) = Len(conc.log) + 1
                   /\ conc'.of[c].result.value =
                          conc'.log[Len(conc'.log)].body.access_token
                   /\ FromExchange(access_token', conc'.log[Len(conc'.log)])
      ]_vars

\* Two tasks had their exchanges in flight together; the one that finished
\* first holds its own token although the cache now holds the other's.
C22_Witness ==
    /\ conc.op = "shared" /\ variant = "AsyncTokenManager"
    /\ conc.peak = 2 /\ Len(conc.log) = 2
    /\ conc.log[1].body.access_token # conc.log[2].body.access_token
    /\ access_token.token = conc.log[2].body.access_token
    /\ \A c \in Callers : conc.of[c].pc = "idle"
    /\ \E c \in Callers :
          conc.of[c].result = Return(conc.log[1].body.access_token)

\* C23: an exchange that fails, whatever the error and also under
\* force_refresh, leaves the cache as the call found it; a token cached
\* before it is returned by the next unforced call, with no exchange call, as
\* long as it has not expired.
C23_FailureKeepsCache ==
    /\ []((IsCall /\ last.gets = 1 /\ last.result.kind = "raise")
             => access_token = last.pre)
    /\ [][(/\ IsCall /\ last.gets = 1 /\ last.result.kind = "raise"
           /\ last.pre # PyNone
           /\ CallStep /\ ~last'.force
           /\ ~is_expired(last.pre, now))
          => /\ last'.gets = 0
             /\ last'.result = Return(last.pre.token)]_vars

C23_Witness ==
    /\ IsCall /\ variant = "AsyncTokenManager"
    /\ last.force /\ last.gets = 1
    /\ last.pre # PyNone /\ ~is_expired(last.pre, now)
    /\ last.result.kind = "raise"
    /\ last.result.exc.type = "MpesaApiException"
    /\ last.result.exc.error.error_code = "TOKEN_MISSING"
    /\ access_token = last.pre

\* C24: a cache that holds a token never becomes absent again and always
\* holds a non-empty token string; the cache changes only in a get_token call
\* whose exchange succeeded with a truthy access_token, and then holds that
\* token.
C24_NeverCleared ==
    /\ [](access_token # PyNone =>
             /\ access_token.token.t = "str"
             /\ Len(access_token.token.s) > 0)
    /\ [][/\ access_token # PyNone => access_token' # PyNone
          /\ access_token' # access_token =>
                /\ CallStep
                /\ last'.gets = 1
                /\ last'.result.kind = "return"
                /\ truthy(last'.outcome.body.access_token)
                /\ access_token'.token = last'.outcome.body.access_token]_vars

C24_Witness ==
    /\ IsCall /\ variant = "TokenManager" /\ ~last.force
    /\ last.pre # PyNone /\ is_expired(last.pre, last.at)
    /\ last.pre.token = Tok1
    /\ last.gets = 1 /\ last.result = Return(Tok2)
    /\ access_token # PyNone /\ access_token.token = Tok2

\* Caller c's step is a return from the cache: line 47 for a thread, the
\* fast path of lines 119-124 for a task.
ServedFromCache(c) ==
    /\ conc.op = "shared"
    /\ \/ conc.of[c].pc = "return_cached" /\ conc'.of[c].pc = "idle"
       \/ /\ variant = "AsyncTokenManager"
          /\ conc.of[c].pc = "idle" /\ conc'.of[c].pc = "idle"
          /\ conc'.of[c] # conc.of[c]

\* C25 (as claimed): whenever get_token serves a token from the cache, fewer
\* than validity_duration seconds have passed since the provider issued that
\* token, however long the exchange response took to arrive.
C25_FreshSinceIssue ==
    [][\A c \in Callers :
          ServedFromCache(c) =>
              now - conc.issued < access_token.expiration_time]_vars

\* C26 (as claimed): a thread whose get_token call performed an exchange
\* gets back the token string of its own exchange response, whatever other
\* threads wrote to the cache before its return.
C26_ReturnsOwnToken ==
    [][\A c \in Callers :
          (/\ conc.op = "shared" /\ variant = "TokenManager"
           /\ conc.of[c].pc = "return_new" /\ conc'.of[c].pc = "idle")
          => conc'.of[c].result = Return(conc.of[c].token)]_vars

\* The operation just run got as far as its post, and the post was rejected.
PostRejected ==
    /\ op.op = "run"
    /\ Len(op.events) = 2
    /\ op.events[2].result.kind = "raise"

\* C27: a product operation whose post is rejected raises that error and
\* leaves the manager's cache as get_token left it; the next operation makes
\* no exchange call and sends the same token again, provided the token is
\* not expired by the local clock.
C27_RejectedPostKeepsToken ==
    /\ [](PostRejected =>
             /\ op.result = op.events[2].result
             /\ access_token # PyNone
             /\ access_token.token = op.events[1].result.value
             /\ op.events[1].gets = 0 => access_token = op.pre)
    /\ [][(/\ PostRejected
           /\ op'.op = "run" /\ now' = now /\ op'.events # <<>>
           /\ ~is_expired(access_token, now))
          => /\ op'.events[1].gets = 0
             /\ calls' = calls
             /\ access_token' = access_token
             /\ Len(op'.events) = 2
             /\ op'.events[2].authorization = op.events[2].authorization]_vars

C27_Witness ==
    /\ PostRejected /\ variant = "TokenManager"
    /\ op.operation = Operation("BillManager", "opt_in", FALSE)
    /\ op.result.exc.error.error_code = "HTTP_401"
    /\ op.pre # PyNone /\ op.pre = access_token
    /\ op.events[1].gets = 0
    /\ op.events[2].authorization = Bearer(op.pre.token)
    /\ calls = 1

\* The BillManager / AsyncBillManager operations other than opt_in.
AppKeyMethods ==
    {"update_opt_in", "send_single_invoice", "send_bulk_invoice",
     "cancel_single_invoice", "cancel_bulk_invoice"}

\* C30: with app_key None, every BillManager operation except opt_in raises
\* ValueError before get_token and before any post (no call at all, cache
\* and exchange count untouched); opt_in goes on to get_token without one.
C30_AppKeyCheckedFirst ==
    /\ [](op.op = "run" /\ op.operation.class = "BillManager"
            /\ op.app_key = PyNone
          => IF op.operation.method \in AppKeyMethods
             THEN /\ op.result = Raise([type |-> "ValueError",
                                        cause |-> PyNone])
                  /\ op.events = <<>>
                  /\ access_token = op.pre
             ELSE /\ op.operation.method = "opt_in"
                  /\ op.events # <<>>
                  /\ op.events[1].call = "get_token"
                  /\ Len(op.events) = 2 => /\ op.events[2].appKey = Absent
                                           /\ op.result = op.events[2].result)
    /\ [][(op'.op = "run" /\ op' # op
             /\ op'.operation.class = "BillManager"
             /\ op'.operation.method \in AppKeyMethods
             /\ op'.app_key = PyNone)
          => calls' = calls /\ access_token' = access_token]_vars

C30_Witness ==
    /\ op.op = "run" /\ variant = "AsyncTokenManager"
    /\ op.operation = Operation("BillManager", "cancel_bulk_invoice", TRUE)
    /\ op.app_key = PyNone
    /\ op.result = Raise([type |-> "ValueError", cause |-> PyNone])
    /\ op.events = <<>>
    /\ op.pre # PyNone /\ ~is_expired(op.pre, now)
    /\ access_token = op.pre /\ calls = 1

\* The operation followed attempt by attempt has got as far as its post.
Posting == op.op = "send" /\ op.pc \in {"raw", "done"} /\ op.got > 0
                          /\ op.headers # PyNone

\* C28: one operation calls get_token once and makes at most 3 post
\* attempts; every attempt carries the payload the operation was given and
\* the token fetched before the first attempt, whatever has happened to the
\* clock and to the manager's cache in between.
C28_RetriesResendSameToken ==
    Posting =>
       /\ op.got = 1
       /\ Len(op.attempts) <= 3
       /\ op.held # PyNone
       /\ op.headers.Authorization = Bearer(op.held.token)
       /\ \A i \in 1..Len(op.attempts) :
             /\ op.attempts[i].sent.json = op.json
             /\ op.attempts[i].sent.Authorization = Bearer(op.held.token)
       /\ op.pc = "raw" => Len(op.attempts) < 3

C28_Witness ==
    /\ Posting /\ op.pc = "done" /\ variant = "TokenManager"
    /\ Len(op.attempts) = 3
    /\ ~is_expired(op.held, op.attempts[1].sent.at)
    /\ is_expired(op.held, op.attempts[3].sent.at)
    /\ access_token # op.held
    /\ op.attempts[3].sent.Authorization = Bearer(op.held.token)
    /\ op.result.kind = "raise"
    /\ op.result.exc.error.error_code = "REQUEST_TIMEOUT"

\* C29: every get_token call ends: its transport get makes at most 3
\* attempts, and the call then returns a token or raises, whatever the
\* other callers are doing.
C29_GetTokenTerminates ==
    /\ [](\A c \in Callers : conc.of[c].attempt_number <= 3)
    /\ \A c \in Callers :
          (conc.of[c].pc # "idle")
          ~> (/\ conc.of[c].pc = "idle"
              /\ \/ conc.of[c].result.kind = "raise"
                 \/ /\ conc.of[c].result.kind = "return"
                    /\ conc.of[c].result.value.t = "str")

C29_Witness ==
    /\ conc.op = "get" /\ variant = "TokenManager"
    /\ conc.of[1].pc = "got" /\ conc.of[1].attempt_number = 3
    /\ conc.of[1].response.kind = "raise"
    /\ conc.of[1].response.exc.type = "MpesaApiException"
    /\ conc.of[1].response.exc.error.error_code = "REQUEST_TIMEOUT"
    /\ conc.of[2].pc = "idle" /\ conc.of[2].result = Return(Tok1)
    /\ access_token # PyNone

====
